---- MODULE Spec2Model ----
(***************************************************************************)
(* TypeStubWriter (server/src/analyzer/typeStubWriter.ts): the walker that *)
(* emits a type stub for a parsed python source file.                      *)
(*                                                                         *)
(* Text is modelled as a sequence of tokens (strings): a line, the stub    *)
(* text and a name are token sequences, string concatenation is \o.  The   *)
(* parse tree is an arena in pre-order: parseTree[i].parent is the index   *)
(* of the class or function whose suite holds node i (0: the module).      *)
(* The recursion visitX -> _emitSuite -> walkChildren -> visitY is made    *)
(* explicit by `stack` (the open _emitSuite calls, each with its saved     *)
(* prevEmittedSuite) and `cursor` (the next node the walker reaches).      *)
(***************************************************************************)
EXTENDS Integers, Sequences, FiniteSets, TLC

\* Bounds of the explored inputs.
MaxNodes == 2
MaxDepth == 3
MaxArguments == 2
MaxParameters == 2
MaxDecorators == 1
MaxWrites == 2

VARIABLES
    parseTree,                      \* parseResults.parseTree (read-only input)
    predominantLineEndSequence,     \* parseResults.predominantLineEndSequence
    predominantTabSequence,         \* parseResults.predominantTabSequence
    _indentAmount,
    _typeStubText,
    _lineEnd,
    _tab,
    _classNestCount,
    _functionNestCount,
    _emittedSuite,
    pc,                             \* "idle": outside write(); "walk": inside walk()
    cursor,                         \* next node of parseTree the walker reaches
    stack,                          \* open _emitSuite calls, innermost last
    writes,                         \* write() calls made on this writer object
    typingsFile                     \* what is stored at _typingsPath

vars == <<parseTree, predominantLineEndSequence, predominantTabSequence,
          _indentAmount, _typeStubText, _lineEnd, _tab, _classNestCount,
          _functionNestCount, _emittedSuite, pc, cursor, stack, writes,
          typingsFile>>

----------------------------------------------------------------------------
\* Optional values (undefined | T) and strings.

None == <<>>
Some(x) == <<x>>
IsSome(o) == o # <<>>
Get(o) == o[1]

RECURSIVE join(_, _)
\* Array.prototype.join: the parts separated by sep.
join(parts, sep) ==
    IF parts = <<>> THEN <<>>
    ELSE IF Len(parts) = 1 THEN parts[1]
    ELSE parts[1] \o <<sep>> \o join(Tail(parts), sep)

----------------------------------------------------------------------------
\* Collaborators: SymbolUtils and ParseTreeUtils.

\* A protected name starts with one underscore, not with two.
isProtectedName(name) ==
    /\ Len(name) > 1
    /\ name[1] = "_"
    /\ name[2] # "_"

\* A private name starts with two underscores and does not end with two.
isPrivateName(name) ==
    /\ Len(name) > 2
    /\ name[1] = "_"
    /\ name[2] = "_"
    /\ ~(name[Len(name) - 1] = "_" /\ name[Len(name)] = "_")

RECURSIVE printExpression(_)
\* The text of an expression: a name, a member access, a number.
printExpression(node) ==
    CASE node.nodeType = "Name" -> node.value
      [] node.nodeType = "MemberAccess" ->
            printExpression(node.leftExpression) \o <<".">> \o node.memberName
      [] node.nodeType = "Number" -> <<ToString(node.value)>>

\* The renderer signals a failure (throws) on an expression it cannot print.
printExpressionThrows(node) == node.nodeType = "Error"

----------------------------------------------------------------------------
\* The renderers of typeStubWriter.ts.

indent(indentAmount, tab) == [i \in 1..indentAmount |-> tab]

\* emitLine that puts the line before the text.
emitLinePrepended(text, indentAmount, tab, lineEnd, line) ==
    indent(indentAmount, tab) \o line \o <<lineEnd>> \o text

\* _emitLine: the text with the line appended at the current indentation.
emitLine(text, indentAmount, tab, lineEnd, line) ==
    text \o indent(indentAmount, tab) \o line \o <<lineEnd>>

emitHeaderDocString(text, indentAmount, tab, lineEnd) ==
    LET l1 == emitLine(text, indentAmount, tab, lineEnd, <<"\"\"\"">>)
        l2 == emitLine(l1, indentAmount, tab, lineEnd,
                       <<"This type stub file was generated by pyright.">>)
        l3 == emitLine(l2, indentAmount, tab, lineEnd, <<"\"\"\"">>)
    IN emitLine(l3, indentAmount, tab, lineEnd, <<>>)

printModuleName(node) ==
    [i \in 1..node.leadingDots |-> "."] \o join(node.nameParts, ".")

\* printParameter that prints the default value of a parameter without annotation.
printParameterWithDefault(node) ==
    (IF node.category = "VarArgList" THEN <<"*">>
     ELSE IF node.category = "VarArgDictionary" THEN <<"**">>
     ELSE <<>>) \o
    (IF IsSome(node.name) THEN Get(node.name) ELSE <<>>) \o
    (IF IsSome(node.typeAnnotation)
     THEN <<": ">> \o printExpression(Get(node.typeAnnotation))
     ELSE <<>>) \o
    (IF IsSome(node.defaultValue)
     THEN IF IsSome(node.typeAnnotation) THEN <<" = ...">>
          ELSE <<"=">> \o printExpression(Get(node.defaultValue))
     ELSE <<>>)

printParameter(node) ==
    LET sigil == IF node.category = "VarArgList" THEN <<"*">>
                 ELSE IF node.category = "VarArgDictionary" THEN <<"**">>
                 ELSE <<>>
        name == IF IsSome(node.name) THEN Get(node.name) ELSE <<>>
        annotation == IF IsSome(node.typeAnnotation)
                      THEN <<": ">> \o printExpression(Get(node.typeAnnotation))
                      ELSE <<>>
        default == IF IsSome(node.defaultValue)
                   THEN IF IsSome(node.typeAnnotation) THEN <<" = ...">> ELSE <<"=...">>
                   ELSE <<>>
    IN sigil \o name \o annotation \o default

printArgument(node) ==
    LET sigil == IF node.argumentCategory = "UnpackedList" THEN <<"*">>
                 ELSE IF node.argumentCategory = "UnpackedDictionary" THEN <<"**">>
                 ELSE <<>>
        name == IF IsSome(node.name) THEN Get(node.name) \o <<"=">> ELSE <<>>
    IN sigil \o name \o printExpression(node.valueExpression)

\* The argument text visitClass builds inline for a class header.
printClassArgument(arg) ==
    LET argString == IF IsSome(arg.name) THEN Get(arg.name) \o <<"=">> ELSE <<>>
    IN argString \o printExpression(arg.valueExpression)

decoratorLine(decorator) ==
    <<"@">> \o printExpression(decorator.leftExpression) \o
    (IF IsSome(decorator.arguments)
     THEN <<"(">> \o join([i \in 1..Len(Get(decorator.arguments)) |->
                             printArgument(Get(decorator.arguments)[i])], ", ") \o <<")">>
     ELSE <<>>)

RECURSIVE emitDecoratorsReversed(_, _, _, _, _)
\* emitDecorators that emits the last decorator first.
emitDecoratorsReversed(text, indentAmount, tab, lineEnd, decorators) ==
    IF decorators = <<>> THEN text
    ELSE emitLine(emitDecoratorsReversed(text, indentAmount, tab, lineEnd,
                                         Tail(decorators)),
                  indentAmount, tab, lineEnd, decoratorLine(decorators[1]))

RECURSIVE emitDecorators(_, _, _, _, _)
emitDecorators(text, indentAmount, tab, lineEnd, decorators) ==
    IF decorators = <<>> THEN text
    ELSE emitDecorators(
            emitLine(text, indentAmount, tab, lineEnd, decoratorLine(decorators[1])),
            indentAmount, tab, lineEnd, Tail(decorators))

\* Building the line of a decorator calls the renderer on its target and on the
\* value of each argument.
decoratorThrows(decorator) ==
    \/ printExpressionThrows(decorator.leftExpression)
    \/ /\ IsSome(decorator.arguments)
       /\ \E n \in 1..Len(Get(decorator.arguments)) :
            printExpressionThrows(Get(decorator.arguments)[n].valueExpression)

\* The decorators _emitDecorators has emitted when the renderer throws: those
\* before the first one it fails on.
decoratorsBeforeThrow(decorators) ==
    IF \E n \in 1..Len(decorators) : decoratorThrows(decorators[n])
    THEN SubSeq(decorators, 1,
                (CHOOSE n \in 1..Len(decorators) :
                    /\ decoratorThrows(decorators[n])
                    /\ \A m \in 1..(n - 1) : ~decoratorThrows(decorators[m])) - 1)
    ELSE decorators

\* visitClass, lines 52-62: a decorator or an argument of the class makes the
\* renderer throw.
classThrows(node) ==
    \/ \E n \in 1..Len(node.decorators) : decoratorThrows(node.decorators[n])
    \/ \E n \in 1..Len(node.arguments) :
            printExpressionThrows(node.arguments[n].valueExpression)

\* visitFunction, lines 89-95: a decorator, the annotation of a parameter or the
\* return annotation makes the renderer throw.
functionThrows(node) ==
    \/ \E n \in 1..Len(node.decorators) : decoratorThrows(node.decorators[n])
    \/ \E n \in 1..Len(node.parameters) :
            /\ IsSome(node.parameters[n].typeAnnotation)
            /\ printExpressionThrows(Get(node.parameters[n].typeAnnotation))
    \/ /\ IsSome(node.returnTypeAnnotation)
       /\ printExpressionThrows(Get(node.returnTypeAnnotation))

classLine(node) ==
    <<"class ">> \o node.name \o
    (IF Len(node.arguments) > 0
     THEN <<"(">> \o join([i \in 1..Len(node.arguments) |->
                             printClassArgument(node.arguments[i])], ", ") \o <<")">>
     ELSE <<>>) \o
    <<":">>

functionLine(node) ==
    (IF node.isAsync THEN <<"async ">> ELSE <<>>) \o
    <<"def ">> \o node.name \o
    <<"(">> \o join([i \in 1..Len(node.parameters) |->
                         printParameter(node.parameters[i])], ", ") \o <<")">> \o
    (IF IsSome(node.returnTypeAnnotation)
     THEN <<" -> ">> \o printExpression(Get(node.returnTypeAnnotation))
     ELSE <<>>) \o
    <<":">>

importLine(node) ==
    LET impText(imp) == printModuleName(imp.module) \o
                        (IF IsSome(imp.alias) THEN <<" as ">> \o Get(imp.alias) ELSE <<>>)
    IN <<"import ">> \o join([i \in 1..Len(node.list) |-> impText(node.list[i])], ", ")

importFromLine(node) ==
    LET impString(imp) == imp.name \o
                          (IF IsSome(imp.alias) THEN <<" as ">> \o Get(imp.alias) ELSE <<>>)
    IN <<"from ">> \o printModuleName(node.module) \o <<" import ">> \o
       (IF node.isWildcardImport THEN <<"*">>
        ELSE join([i \in 1..Len(node.imports) |-> impString(node.imports[i])], ", "))

----------------------------------------------------------------------------
\* The parse trees explored (parseNodes.ts node shapes, as the writer reads them).

\* node.name.nameToken.value of the i-th node: public, protected or private.
nameOf(i, visibility) ==
    (CASE visibility = "public" -> <<>>
       [] visibility = "protected" -> <<"_">>
       [] visibility = "private" -> <<"_", "_">>) \o <<"n" \o ToString(i)>>

Name(value) == [nodeType |-> "Name", value |-> <<value>>]
MemberAccess(left, member) ==
    [nodeType |-> "MemberAccess", leftExpression |-> Name(left), memberName |-> <<member>>]
Number(value) == [nodeType |-> "Number", value |-> value]

ModuleName(leadingDots, nameParts) == [leadingDots |-> leadingDots, nameParts |-> nameParts]

\* The nodes, each with the fields the writer reads.
ClassNode(parent, name, decorators, arguments) ==
    [nodeType |-> "Class", parent |-> parent, name |-> name,
     decorators |-> decorators, arguments |-> arguments]

FunctionNode(parent, name, decorators, parameters, isAsync, returnTypeAnnotation) ==
    [nodeType |-> "Function", parent |-> parent, name |-> name,
     decorators |-> decorators, parameters |-> parameters, isAsync |-> isAsync,
     returnTypeAnnotation |-> returnTypeAnnotation]

ImportNode(parent, list) == [nodeType |-> "Import", parent |-> parent, list |-> list]

ImportFromNode(parent, module, isWildcardImport, imports) ==
    [nodeType |-> "ImportFrom", parent |-> parent, module |-> module,
     isWildcardImport |-> isWildcardImport, imports |-> imports]

\* Any statement that is neither a declaration nor an import.
StatementNode(parent) == [nodeType |-> "Statement", parent |-> parent]

\* The i-th node of a plain tree: a declaration without decorators, arguments or
\* parameters, `import ni`, `from ni import x`, or any other statement.
PlainNode(i, nodeType, visibility, parent) ==
    CASE nodeType = "Class" -> ClassNode(parent, nameOf(i, visibility), <<>>, <<>>)
      [] nodeType = "Function" ->
            FunctionNode(parent, nameOf(i, visibility), <<>>, <<>>, FALSE, None)
      [] nodeType = "Import" ->
            ImportNode(parent, <<[module |-> ModuleName(0, <<nameOf(i, "public")>>),
                                  alias |-> None]>>)
      [] nodeType = "ImportFrom" ->
            ImportFromNode(parent, ModuleName(0, <<nameOf(i, "public")>>), FALSE,
                           <<[name |-> <<"x">>, alias |-> None]>>)
      [] OTHER -> StatementNode(parent)

Visibilities == {"public", "protected", "private"}
Kinds == ({"Class", "Function"} \X Visibilities) \cup
         {<<"Import", "public">>, <<"ImportFrom", "public">>, <<"Statement", "public">>}

RECURSIVE AncestorsOrSelf(_, _)
AncestorsOrSelf(tree, i) ==
    IF i = 0 THEN {} ELSE {i} \cup AncestorsOrSelf(tree, tree[i].parent)

Ancestors(tree, i) == AncestorsOrSelf(tree, tree[i].parent)

\* Where the next statement of a pre-order listing may hang: at module level, or in
\* the suite of a class or function that is still open (the last node or one of its
\* ancestors).
OpenSuites(tree) ==
    {0} \cup {j \in AncestorsOrSelf(tree, Len(tree)) :
                tree[j].nodeType \in {"Class", "Function"}}

RECURSIVE PlainTrees(_)
\* Every tree of exactly n plain nodes.
PlainTrees(n) ==
    IF n = 0 THEN {<<>>}
    ELSE {Append(tree, PlainNode(n, k[1], k[2], p)) :
            <<tree, k, p>> \in {<<t, kk, q>> \in PlainTrees(n - 1) \X Kinds \X (0..(n - 1)) :
                                    q \in OpenSuites(t)}}

RECURSIVE ChainTrees(_)
\* Every tree of exactly n plain nodes in which each node holds the next.
ChainTrees(n) ==
    IF n = 0 THEN {<<>>}
    ELSE {Append(tree, PlainNode(n, k[1], k[2], n - 1)) :
            <<tree, k>> \in {<<t, kk>> \in ChainTrees(n - 1) \X Kinds :
                                (n - 1) \in OpenSuites(t)}}

Tuples(S, n) == UNION {[1..k -> S] : k \in 0..n}

Arguments ==
    [argumentCategory : {"Simple", "UnpackedList", "UnpackedDictionary"},
     name : {None, Some(<<"metaclass">>)},
     valueExpression : {MemberAccess("abc", "ABC")}]

\* A named parameter of each category, and the bare `*` separator.
Parameters ==
    {[category |-> c[1], name |-> c[2], typeAnnotation |-> t, defaultValue |-> d] :
        <<c, t, d>> \in {<<"Simple", Some(<<"p">>)>>, <<"VarArgList", Some(<<"p">>)>>,
                         <<"VarArgList", None>>, <<"VarArgDictionary", Some(<<"p">>)>>} \X
                        {None, Some(MemberAccess("typing", "Any"))} \X
                        {None, Some(Number(42))}}

Decorators ==
    [leftExpression : {Name("deco")},
     arguments : {None} \cup {Some(args) : args \in Tuples(Arguments, 1)}]

\* One public class with base/keyword arguments.
ClassTrees ==
    {<<ClassNode(0, nameOf(1, "public"), <<>>, args)>> :
        args \in Tuples(Arguments, MaxArguments)}

\* One public function with parameters, or async with a return annotation.
FunctionTrees ==
    {<<FunctionNode(0, nameOf(1, "public"), <<>>, ps, FALSE, None)>> :
        ps \in Tuples(Parameters, MaxParameters)} \cup
    {<<FunctionNode(0, nameOf(1, "public"), <<>>, ps, a, r)>> :
        <<ps, a, r>> \in Tuples(Parameters, 1) \X BOOLEAN \X {None, Some(Name("str"))}}

\* One decorated class or function of any visibility.
DecoratedTrees ==
    {<<ClassNode(0, nameOf(1, v), ds, <<>>)>> :
        <<v, ds>> \in Visibilities \X Tuples(Decorators, MaxDecorators)} \cup
    {<<FunctionNode(0, nameOf(1, v), ds, <<>>, FALSE, None)>> :
        <<v, ds>> \in Visibilities \X Tuples(Decorators, MaxDecorators)}

\* A bare decorator, one whose target has a private name, one with an argument.
MemberDecorators ==
    {[leftExpression |-> Name("deco"), arguments |-> None],
     [leftExpression |-> Name("__private"), arguments |-> None],
     [leftExpression |-> MemberAccess("mod", "_protected"),
      arguments |-> Some(<<[argumentCategory |-> "UnpackedList", name |-> None,
                            valueExpression |-> Name("args")]>>)]}

\* A public class holding one decorated class or function of any visibility.
DecoratedMemberTrees ==
    {<<PlainNode(1, "Class", "public", 0), ClassNode(1, nameOf(2, v), ds, <<>>)>> :
        <<v, ds>> \in Visibilities \X Tuples(MemberDecorators, MaxDecorators + 1)} \cup
    {<<PlainNode(1, "Class", "public", 0),
       FunctionNode(1, nameOf(2, v), ds, <<>>, FALSE, None)>> :
        <<v, ds>> \in Visibilities \X Tuples(MemberDecorators, MaxDecorators + 1)}

ModuleNames ==
    {ModuleName(0, <<<<"os">>>>), ModuleName(0, <<<<"os">>, <<"path">>>>),
     ModuleName(2, <<<<"pkg">>>>), ModuleName(1, <<>>)}
Aliases == {None, Some(<<"al">>)}

\* One import or from-import statement, in full.
ImportTrees ==
    {<<ImportNode(0, l)>> :
        l \in Tuples([module : ModuleNames, alias : Aliases], 2) \ {<<>>}} \cup
    {<<ImportFromNode(0, m, w, IF w THEN <<>> ELSE <<[name |-> <<"x">>, alias |-> a]>>)>> :
        <<m, w, a>> \in ModuleNames \X BOOLEAN \X Aliases}

\* `import os` or `from os import x` at module scope, then a class or function
\* holding one of the two again.
ImportScopeTrees ==
    LET statement(kind, parent) ==
            IF kind = "Import"
            THEN ImportNode(parent, <<[module |-> ModuleName(0, <<<<"os">>>>),
                                       alias |-> None]>>)
            ELSE ImportFromNode(parent, ModuleName(0, <<<<"os">>>>), FALSE,
                                <<[name |-> <<"x">>, alias |-> None]>>)
    IN {<<statement(k[1], 0), PlainNode(2, k[2], k[3], 0), statement(k[4], 2)>> :
            k \in {"Import", "ImportFrom"} \X {"Class", "Function"} \X Visibilities \X
                  {"Import", "ImportFrom"}}

\* A public class with a public and a hidden method, and a hidden module-level
\* function before or after it.
RoundTripTrees ==
    {<<PlainNode(1, "Class", "public", 0), PlainNode(2, "Function", v[1][1], 1),
       PlainNode(3, "Function", v[1][2], 1), PlainNode(4, "Function", v[2], 0)>> :
        v \in ({<<"public", h>> : h \in Visibilities \ {"public"}} \cup
               {<<h, "public">> : h \in Visibilities \ {"public"}}) \X
              (Visibilities \ {"public"})} \cup
    {<<PlainNode(1, "Function", v[2], 0), PlainNode(2, "Class", "public", 0),
       PlainNode(3, "Function", v[1][1], 2), PlainNode(4, "Function", v[1][2], 2)>> :
        v \in ({<<"public", h>> : h \in Visibilities \ {"public"}} \cup
               {<<h, "public">> : h \in Visibilities \ {"public"}}) \X
              (Visibilities \ {"public"})}

\* A public class or function holding a statement of any kind, and a third
\* statement of any kind after it, in the same suite or back at module level.
SiblingTrees ==
    {<<PlainNode(1, k[1], "public", 0), PlainNode(2, k[2][1], k[2][2], 1),
       PlainNode(3, k[3][1], k[3][2], k[4])>> :
        k \in {"Class", "Function"} \X Kinds \X Kinds \X {0, 1}}

\* A public function holding a public class that holds two statements of any kind.
LocalClassTrees ==
    {<<PlainNode(1, "Function", "public", 0), PlainNode(2, "Class", "public", 1),
       PlainNode(3, k[1][1], k[1][2], 2), PlainNode(4, k[2][1], k[2][2], 2)>> :
        k \in Kinds \X Kinds}

ParseTrees ==
    UNION {PlainTrees(n) : n \in 0..MaxNodes} \cup
    UNION {ChainTrees(n) : n \in 0..MaxDepth} \cup RoundTripTrees \cup
    ImportScopeTrees \cup SiblingTrees \cup DecoratedMemberTrees \cup
    LocalClassTrees \cup
    ClassTrees \cup FunctionTrees \cup DecoratedTrees \cup ImportTrees

\* predominantLineEndSequence and predominantTabSequence of the parse results.
FormattingPreferences == {<<"\n", "    ">>, <<"\r\n", "\t">>}

----------------------------------------------------------------------------
\* The walker's position (parseTreeWalker.ts: walk, walkChildren).

NodeCount == Len(parseTree)

\* The node whose suite is being walked (0: the module's statements).
Enclosing == IF stack = <<>> THEN 0 ELSE stack[Len(stack)].node

\* walkChildren has a next child to visit.
AtChild == cursor <= NodeCount /\ parseTree[cursor].parent = Enclosing

\* walkChildren of the enclosing class or function has no child left.
AtSuiteEnd == stack # <<>> /\ ~AtChild

\* The first node after node i and everything below it.
subtreeEnd(tree, i) ==
    IF \E j \in (i + 1)..Len(tree) : tree[j].parent < i
    THEN CHOOSE j \in (i + 1)..Len(tree) :
            /\ tree[j].parent < i
            /\ \A k \in (i + 1)..(j - 1) : tree[k].parent >= i
    ELSE Len(tree) + 1

----------------------------------------------------------------------------
\* The decisions and steps of the visitors.

\* classIsEmitted without the test of a protected name.
classIsEmittedThoughProtected(className) == ~isPrivateName(className)

\* classIsEmitted without the test of a private name.
classIsEmittedThoughPrivate(className) == ~isProtectedName(className)

\* visitClass, line 50: the class is emitted.
classIsEmitted(className) ==
    ~isProtectedName(className) /\ ~isPrivateName(className)

\* functionIsEmitted without the test of a private name.
functionIsEmittedThoughPrivate(functionNestCount, functionName) ==
    /\ functionNestCount = 0
    /\ ~isProtectedName(functionName)

\* functionIsEmitted that lets a function in, one function deep.
functionIsEmittedOneDeep(functionNestCount, functionName) ==
    /\ functionNestCount <= 1
    /\ ~isProtectedName(functionName)
    /\ ~isPrivateName(functionName)

\* functionIsEmitted without the test of the nesting.
functionIsEmittedThoughNested(functionNestCount, functionName) ==
    /\ ~isProtectedName(functionName)
    /\ ~isPrivateName(functionName)

\* visitFunction, lines 84-86: the function is emitted.
functionIsEmitted(functionNestCount, functionName) ==
    /\ functionNestCount = 0
    /\ ~isProtectedName(functionName)
    /\ ~isPrivateName(functionName)

\* importIsSkipped without the test of the enclosing classes.
importIsSkippedInFunctionOnly(functionNestCount, classNestCount) ==
    functionNestCount > 0

\* visitImport and visitImportFrom, first line: the statement is dropped.
importIsSkipped(functionNestCount, classNestCount) ==
    functionNestCount > 0 \/ classNestCount > 0

\* emitPlaceholder that never emits the placeholder.
emitPlaceholderNever(text, indentAmount, tab, lineEnd, emittedSuite) == text

\* emitPlaceholder that emits the placeholder in every suite.
emitPlaceholderAlways(text, indentAmount, tab, lineEnd, emittedSuite) ==
    emitLine(text, indentAmount, tab, lineEnd, <<"...">>)

\* _emitSuite after the callback: the placeholder of a suite that emitted nothing.
emitPlaceholder(text, indentAmount, tab, lineEnd, emittedSuite) ==
    IF ~emittedSuite THEN emitLine(text, indentAmount, tab, lineEnd, <<"...">>) ELSE text

\* emitClassTrailer with one blank line.
emitClassTrailerOnce(text, indentAmount, tab, lineEnd) ==
    emitLine(text, indentAmount, tab, lineEnd, <<>>)

\* visitClass, the two blank lines after the suite.
emitClassTrailer(text, indentAmount, tab, lineEnd) ==
    emitLine(emitLine(text, indentAmount, tab, lineEnd, <<>>),
             indentAmount, tab, lineEnd, <<>>)

\* emitFunctionTrailer that emits the line terminator alone.
emitFunctionTrailerBare(text, indentAmount, tab, lineEnd) == text \o <<lineEnd>>

\* visitFunction, the blank line after the suite.
emitFunctionTrailer(text, indentAmount, tab, lineEnd) ==
    emitLine(text, indentAmount, tab, lineEnd, <<>>)

\* restoreEmittedSuite that keeps the flag of the suite that is closed.
restoreEmittedSuiteSkipped(prevEmittedSuite, emittedSuite) == emittedSuite

\* _emitSuite, line 166: the flag of the enclosing suite after the suite is closed.
restoreEmittedSuite(prevEmittedSuite, emittedSuite) == prevEmittedSuite

\* _increaseIndent before the callback.
increaseIndent(indentAmount) == indentAmount + 1

\* decreaseIndent that leaves the indentation where the suite had it.
decreaseIndentSkipped(indentAmount) == indentAmount

\* _increaseIndent after the callback.
decreaseIndent(indentAmount) == indentAmount - 1

\* Returning false from a visitor: the walker goes on after the node's subtree.
skipChildren(tree, i) == subtreeEnd(tree, i)

Input == <<parseTree, predominantLineEndSequence, predominantTabSequence>>

Init ==
    /\ parseTree \in ParseTrees
    /\ \E preference \in FormattingPreferences :
            /\ predominantLineEndSequence = preference[1]
            /\ predominantTabSequence = preference[2]
    /\ _indentAmount = 0
    /\ _typeStubText = <<>>
    /\ _lineEnd = "\n"
    /\ _tab = "    "
    /\ _classNestCount = 0
    /\ _functionNestCount = 0
    /\ _emittedSuite = FALSE
    /\ pc = "idle"
    /\ cursor = 0
    /\ stack = <<>>
    /\ writes = 0
    /\ typingsFile = None

\* newWriter that keeps the text of the writer before it.
newWriterStale ==
    /\ pc = "idle"
    /\ writes = 1
    /\ _indentAmount' = 0
    /\ _lineEnd' = "\n"
    /\ _tab' = "    "
    /\ _classNestCount' = 0
    /\ _functionNestCount' = 0
    /\ _emittedSuite' = FALSE
    /\ writes' = 0
    /\ UNCHANGED <<Input, _typeStubText, pc, cursor, stack, typingsFile>>

\* new TypeStubWriter(typingsPath, sourceFile) for the same file, once the first
\* writer has written.
newWriter ==
    /\ pc = "idle"
    /\ writes = 1
    /\ _indentAmount' = 0
    /\ _typeStubText' = <<>>
    /\ _lineEnd' = "\n"
    /\ _tab' = "    "
    /\ _classNestCount' = 0
    /\ _functionNestCount' = 0
    /\ _emittedSuite' = FALSE
    /\ writes' = 0
    /\ UNCHANGED <<Input, pc, cursor, stack, typingsFile>>

\* write(), up to the walk of the module's statements.
write ==
    /\ pc = "idle"
    /\ writes < MaxWrites
    /\ _lineEnd' = predominantLineEndSequence
    /\ _tab' = predominantTabSequence
    /\ _typeStubText' = emitHeaderDocString(_typeStubText, _indentAmount,
                                            predominantTabSequence,
                                            predominantLineEndSequence)
    /\ pc' = "walk"
    /\ cursor' = 1
    /\ writes' = writes + 1
    /\ UNCHANGED <<Input, _indentAmount, _classNestCount, _functionNestCount,
                   _emittedSuite, stack, typingsFile>>

\* visitClass, up to walkChildren inside the suite callback.
visitClass ==
    /\ pc = "walk"
    /\ AtChild
    /\ parseTree[cursor].nodeType = "Class"
    /\ ~(classIsEmitted(parseTree[cursor].name) /\ classThrows(parseTree[cursor]))
    /\ LET node == parseTree[cursor]
           className == node.name
       IN IF classIsEmitted(className)
          THEN LET emitted == TRUE
                   decorated == emitDecorators(_typeStubText, _indentAmount, _tab,
                                               _lineEnd, node.decorators)
               IN /\ _typeStubText' = emitLine(decorated, _indentAmount, _tab,
                                               _lineEnd, classLine(node))
                  /\ _indentAmount' = increaseIndent(_indentAmount)
                  /\ stack' = Append(stack, [node |-> cursor,
                                             prevEmittedSuite |-> emitted])
                  /\ _emittedSuite' = FALSE
                  /\ _classNestCount' = _classNestCount + 1
                  /\ cursor' = cursor + 1
                  /\ UNCHANGED _functionNestCount
          ELSE /\ cursor' = skipChildren(parseTree, cursor)
               /\ UNCHANGED <<_typeStubText, _indentAmount, stack, _emittedSuite,
                              _classNestCount, _functionNestCount>>
    /\ UNCHANGED <<Input, _lineEnd, _tab, pc, writes, typingsFile>>

\* visitClass, from the return of walkChildren to its own return.
leaveClass ==
    /\ pc = "walk"
    /\ AtSuiteEnd
    /\ parseTree[Enclosing].nodeType = "Class"
    /\ LET frame == stack[Len(stack)]
           suite == emitPlaceholder(_typeStubText, _indentAmount, _tab, _lineEnd,
                                    _emittedSuite)
       IN /\ _classNestCount' = _classNestCount - 1
          /\ _emittedSuite' = restoreEmittedSuite(frame.prevEmittedSuite, _emittedSuite)
          /\ _indentAmount' = decreaseIndent(_indentAmount)
          /\ _typeStubText' = emitClassTrailer(suite, decreaseIndent(_indentAmount), _tab,
                                              _lineEnd)
          /\ stack' = SubSeq(stack, 1, Len(stack) - 1)
    /\ UNCHANGED <<Input, _lineEnd, _tab, _functionNestCount, pc, cursor, writes,
                   typingsFile>>

\* visitFunction, up to walkChildren inside the suite callback.
visitFunction ==
    /\ pc = "walk"
    /\ AtChild
    /\ parseTree[cursor].nodeType = "Function"
    /\ ~(/\ functionIsEmitted(_functionNestCount, parseTree[cursor].name)
         /\ functionThrows(parseTree[cursor]))
    /\ LET node == parseTree[cursor]
           functionName == node.name
       IN IF functionIsEmitted(_functionNestCount, functionName)
          THEN LET emitted == TRUE
                   decorated == emitDecorators(_typeStubText, _indentAmount, _tab,
                                               _lineEnd, node.decorators)
               IN /\ _typeStubText' = emitLine(decorated, _indentAmount, _tab,
                                               _lineEnd, functionLine(node))
                  /\ _indentAmount' = increaseIndent(_indentAmount)
                  /\ stack' = Append(stack, [node |-> cursor,
                                             prevEmittedSuite |-> emitted])
                  /\ _emittedSuite' = FALSE
                  /\ _functionNestCount' = _functionNestCount + 1
                  /\ cursor' = cursor + 1
                  /\ UNCHANGED _classNestCount
          ELSE /\ cursor' = skipChildren(parseTree, cursor)
               /\ UNCHANGED <<_typeStubText, _indentAmount, stack, _emittedSuite,
                              _classNestCount, _functionNestCount>>
    /\ UNCHANGED <<Input, _lineEnd, _tab, pc, writes, typingsFile>>

\* visitFunction, from the return of walkChildren to its own return.
leaveFunction ==
    /\ pc = "walk"
    /\ AtSuiteEnd
    /\ parseTree[Enclosing].nodeType = "Function"
    /\ LET frame == stack[Len(stack)]
           suite == emitPlaceholder(_typeStubText, _indentAmount, _tab, _lineEnd,
                                    _emittedSuite)
       IN /\ _functionNestCount' = _functionNestCount - 1
          /\ _emittedSuite' = restoreEmittedSuite(frame.prevEmittedSuite, _emittedSuite)
          /\ _indentAmount' = decreaseIndent(_indentAmount)
          /\ _typeStubText' = emitFunctionTrailer(suite, decreaseIndent(_indentAmount),
                                                  _tab, _lineEnd)
          /\ stack' = SubSeq(stack, 1, Len(stack) - 1)
    /\ UNCHANGED <<Input, _lineEnd, _tab, _classNestCount, pc, cursor, writes,
                   typingsFile>>

visitImport ==
    /\ pc = "walk"
    /\ AtChild
    /\ parseTree[cursor].nodeType = "Import"
    /\ _typeStubText' =
            IF importIsSkipped(_functionNestCount, _classNestCount)
            THEN _typeStubText
            ELSE emitLine(_typeStubText, _indentAmount, _tab, _lineEnd,
                          importLine(parseTree[cursor]))
    /\ cursor' = skipChildren(parseTree, cursor)
    /\ UNCHANGED <<Input, _indentAmount, _lineEnd, _tab, _classNestCount,
                   _functionNestCount, _emittedSuite, pc, stack, writes, typingsFile>>

visitImportFrom ==
    /\ pc = "walk"
    /\ AtChild
    /\ parseTree[cursor].nodeType = "ImportFrom"
    /\ _typeStubText' =
            IF importIsSkipped(_functionNestCount, _classNestCount)
            THEN _typeStubText
            ELSE emitLine(_typeStubText, _indentAmount, _tab, _lineEnd,
                          importFromLine(parseTree[cursor]))
    /\ cursor' = skipChildren(parseTree, cursor)
    /\ UNCHANGED <<Input, _indentAmount, _lineEnd, _tab, _classNestCount,
                   _functionNestCount, _emittedSuite, pc, stack, writes, typingsFile>>

\* Any other statement: no visitor of the writer, nothing below it is emitted.
visitStatement ==
    /\ pc = "walk"
    /\ AtChild
    /\ parseTree[cursor].nodeType = "Statement"
    /\ cursor' = skipChildren(parseTree, cursor)
    /\ UNCHANGED <<Input, _indentAmount, _typeStubText, _lineEnd, _tab,
                   _classNestCount, _functionNestCount, _emittedSuite, pc, stack,
                   writes, typingsFile>>

\* WalkDone that also holds once the walk has failed.
WalkDoneOrFailed ==
    \/ pc = "walk" /\ stack = <<>> /\ cursor > NodeCount
    \/ pc = "failed"

\* The walk of the module is over.
WalkDone == pc = "walk" /\ stack = <<>> /\ cursor > NodeCount

\* write(), after the walk: _writeFile.
writeFile ==
    /\ WalkDone
    /\ typingsFile' = Some([text |-> _typeStubText, writes |-> writes])
    /\ pc' = "idle"
    /\ cursor' = 0
    /\ UNCHANGED <<Input, _indentAmount, _typeStubText, _lineEnd, _tab,
                   _classNestCount, _functionNestCount, _emittedSuite, stack, writes>>

Next ==
    \/ newWriter
    \/ write
    \/ visitClass
    \/ leaveClass
    \/ visitFunction
    \/ leaveFunction
    \/ visitImport
    \/ visitImportFrom
    \/ visitStatement
    \/ writeFile

Spec == Init /\ [][Next]_vars

----------------------------------------------------------------------------
\* The expression renderer fails during the walk.

\* An expression the renderer cannot print.
ErrorNode == [nodeType |-> "Error"]

\* Decorators that print, that fail on their target and that fail on an argument.
ThrowingDecorators ==
    {[leftExpression |-> Name("deco"), arguments |-> None],
     [leftExpression |-> ErrorNode, arguments |-> None],
     [leftExpression |-> Name("deco"),
      arguments |-> Some(<<[argumentCategory |-> "Simple", name |-> None,
                            valueExpression |-> ErrorNode]>>)]}

\* A class or function of any visibility with an unprintable expression in a
\* decorator, a class argument, a parameter's annotation or default value, or the
\* return annotation.
ThrowingNodes(i, parent) ==
    {ClassNode(parent, nameOf(i, v), ds, args) :
        <<v, ds, args>> \in
            {"public", "private"} \X Tuples(ThrowingDecorators, 2) \X
            {<<>>, <<[argumentCategory |-> "Simple", name |-> None,
                      valueExpression |-> ErrorNode]>>}} \cup
    {FunctionNode(parent, nameOf(i, v), ds, ps, FALSE, r) :
        <<v, ds, ps, r>> \in
            {"public", "private"} \X Tuples(ThrowingDecorators, 1) \X
            {<<>>,
             <<[category |-> "Simple", name |-> Some(<<"p">>),
                typeAnnotation |-> Some(ErrorNode), defaultValue |-> None]>>,
             <<[category |-> "Simple", name |-> Some(<<"p">>),
                typeAnnotation |-> None, defaultValue |-> Some(ErrorNode)]>>} \X
            {None, Some(ErrorNode)}}

\* Such a declaration alone, or in a public class after a public method; and the
\* plain trees of one node.
ThrowingTrees ==
    {<<node>> : node \in ThrowingNodes(1, 0)} \cup
    {<<PlainNode(1, "Class", "public", 0), PlainNode(2, "Function", "public", 1),
       node>> : node \in ThrowingNodes(3, 1)} \cup
    PlainTrees(1)

\* What _typingsPath may hold before the writer runs: nothing, or an older stub.
EarlierFiles == {None, Some([text |-> <<"earlier stub", "\n">>, writes |-> 0])}

InitRendererFails ==
    /\ parseTree \in ThrowingTrees
    /\ \E preference \in FormattingPreferences :
            /\ predominantLineEndSequence = preference[1]
            /\ predominantTabSequence = preference[2]
    /\ _indentAmount = 0
    /\ _typeStubText = <<>>
    /\ _lineEnd = "\n"
    /\ _tab = "    "
    /\ _classNestCount = 0
    /\ _functionNestCount = 0
    /\ _emittedSuite = FALSE
    /\ pc = "idle"
    /\ cursor = 0
    /\ stack = <<>>
    /\ writes = 0
    /\ typingsFile \in EarlierFiles

\* visitClass of an accepted class, when the renderer throws: the flag is set
\* (line 51), the decorators before the failure are emitted, and the exception
\* leaves every open call of the walk, write() included.
visitClassThrows ==
    /\ pc = "walk"
    /\ AtChild
    /\ parseTree[cursor].nodeType = "Class"
    /\ classIsEmitted(parseTree[cursor].name)
    /\ classThrows(parseTree[cursor])
    /\ _emittedSuite' = TRUE
    /\ _typeStubText' = emitDecorators(_typeStubText, _indentAmount, _tab, _lineEnd,
                                       decoratorsBeforeThrow(parseTree[cursor].decorators))
    /\ stack' = <<>>
    /\ pc' = "failed"
    /\ UNCHANGED <<Input, _indentAmount, _lineEnd, _tab, _classNestCount,
                   _functionNestCount, cursor, writes, typingsFile>>

\* visitFunction of an accepted function, when the renderer throws.
visitFunctionThrows ==
    /\ pc = "walk"
    /\ AtChild
    /\ parseTree[cursor].nodeType = "Function"
    /\ functionIsEmitted(_functionNestCount, parseTree[cursor].name)
    /\ functionThrows(parseTree[cursor])
    /\ _emittedSuite' = TRUE
    /\ _typeStubText' = emitDecorators(_typeStubText, _indentAmount, _tab, _lineEnd,
                                       decoratorsBeforeThrow(parseTree[cursor].decorators))
    /\ stack' = <<>>
    /\ pc' = "failed"
    /\ UNCHANGED <<Input, _indentAmount, _lineEnd, _tab, _classNestCount,
                   _functionNestCount, cursor, writes, typingsFile>>

NextRendererFails ==
    \/ Next
    \/ visitClassThrows
    \/ visitFunctionThrows

SpecRendererFails == InitRendererFails /\ [][NextRendererFails]_vars

----------------------------------------------------------------------------
\* Reading the stub text back: its lines, their indentation and what they declare.

LineEndTokens == {"\n", "\r\n"}
TabTokens == {"    ", "\t"}

\* The lines of a text, without their terminators.
SplitLines(text) ==
    LET IsEnd(i) == text[i] \in LineEndTokens
        ends == SelectSeq([i \in 1..Len(text) |-> i], IsEnd)
    IN [k \in 1..Len(ends) |->
            SubSeq(text, IF k = 1 THEN 1 ELSE ends[k - 1] + 1, ends[k] - 1)]

StubLines == SplitLines(_typeStubText)

\* The number of indentation units a line starts with, and the rest of the line.
IndentOf(line) ==
    IF \A i \in 1..Len(line) : line[i] \in TabTokens THEN Len(line)
    ELSE CHOOSE n \in 0..(Len(line) - 1) :
            /\ line[n + 1] \notin TabTokens
            /\ \A i \in 1..n : line[i] \in TabTokens
Content(line) == SubSeq(line, IndentOf(line) + 1, Len(line))

IsPrefix(p, q) == Len(p) <= Len(q) /\ SubSeq(q, 1, Len(p)) = p

\* The tokens of the line from position p on start with the tokens of q.
HasAt(line, p, q) ==
    /\ Len(line) >= p + Len(q) - 1
    /\ \A t \in 1..Len(q) : line[p + t - 1] = q[t]

DeclaresClass(line, name) ==
    LET p == IndentOf(line) + 1
    IN /\ HasAt(line, p, <<"class ">>)
       /\ HasAt(line, p + 1, name)
       /\ \/ HasAt(line, p + 1 + Len(name), <<":">>)
          \/ HasAt(line, p + 1 + Len(name), <<"(">>)

DeclaresFunction(line, name) ==
    LET p == IndentOf(line) + 1
        q == IF HasAt(line, p, <<"async ">>) THEN p + 1 ELSE p
    IN /\ HasAt(line, q, <<"def ">>)
       /\ HasAt(line, q + 1, name)
       /\ HasAt(line, q + 1 + Len(name), <<"(">>)

Nodes == 1..NodeCount
Declarations == {i \in Nodes : parseTree[i].nodeType \in {"Class", "Function"}}
ImportStatements == {i \in Nodes : parseTree[i].nodeType \in {"Import", "ImportFrom"}}

\* Line k is the declaration line of node i.
IsHeaderOf(line, i) ==
    IF parseTree[i].nodeType = "Class"
    THEN DeclaresClass(line, parseTree[i].name)
    ELSE DeclaresFunction(line, parseTree[i].name)

HeaderLines(lines, i) ==
    LET name == parseTree[i].name
        isClass == parseTree[i].nodeType = "Class"
        IsHeader(k) ==
            LET line == lines[k]
                n == Len(line)
            IN /\ n >= Len(name) + 2
               /\ IF isClass THEN DeclaresClass(line, name)
                  ELSE DeclaresFunction(line, name)
    IN {k \in 1..Len(lines) : IsHeader(k)}
IsRendered(lines, i) == HeaderLines(lines, i) # {}

IsHidden(i) == isPrivateName(parseTree[i].name) \/ isProtectedName(parseTree[i].name)
ChildrenOf(i) == {c \in Nodes : parseTree[c].parent = i}

\* The first write() of a writer has returned.
FirstWriteDone == pc = "idle" /\ writes = 1

\* The lines of the suite that follows header line k: up to the next line that is
\* not indented deeper than the header.
SuiteLines(lines, k) ==
    {m \in (k + 1)..Len(lines) :
        \A j \in (k + 1)..m : IndentOf(lines[j]) > IndentOf(lines[k])}

----------------------------------------------------------------------------
\* C1: no class or function with a private or protected name has a declaration
\* line ("class <name>", "def <name>") anywhere in the stub text, at any depth.
C1_HiddenNeverDeclared ==
    LET lines == StubLines IN
    \A i \in Declarations :
        IsHidden(i) =>
            LET name == parseTree[i].name IN
            \A k \in 1..Len(lines) :
                LET line == lines[k] IN
                Len(line) >= Len(name) + 2 =>
                    /\ ~DeclaresClass(line, name)
                    /\ ~DeclaresFunction(line, name)

\* A finished stub of a module with a hidden declaration at module level and a
\* hidden function inside a rendered class.
C1_Witness ==
    LET lines == StubLines IN
    /\ FirstWriteDone
    /\ \E i, j \in Declarations :
        /\ IsHidden(i) /\ parseTree[i].parent = 0
        /\ IsHidden(j) /\ parseTree[j].nodeType = "Function"
        /\ parseTree[j].parent # 0
        /\ IsRendered(lines, parseTree[j].parent)

\* A function with a function among its ancestors.
IsInnerFunction(i) ==
    /\ parseTree[i].nodeType = "Function"
    /\ \E a \in Ancestors(parseTree, i) : parseTree[a].nodeType = "Function"

\* C2: a function defined inside another function's body, directly or through
\* classes, never has a "def" line in the stub text, whatever its name and whether
\* or not the outer function is rendered.
C2_InnerFunctionNeverDeclared ==
    LET lines == StubLines IN
    \A i \in Declarations :
        IsInnerFunction(i) =>
            \A k \in 1..Len(lines) : ~DeclaresFunction(lines[k], parseTree[i].name)

\* A finished stub of a rendered function holding a rendered class holding a
\* public function.
C2_Witness ==
    LET lines == StubLines IN
    /\ FirstWriteDone
    /\ \E i \in Declarations :
        /\ IsInnerFunction(i)
        /\ ~IsHidden(i)
        /\ parseTree[parseTree[i].parent].nodeType = "Class"
        /\ IsRendered(lines, parseTree[i].parent)
        /\ IsRendered(lines, parseTree[parseTree[i].parent].parent)

ImportText(i) ==
    IF parseTree[i].nodeType = "Import" THEN importLine(parseTree[i])
    ELSE importFromLine(parseTree[i])

\* C3: an import or from-import is emitted exactly when it is visited while
\* _classNestCount and _functionNestCount are 0; in a finished stub each import
\* statement's line appears once per occurrence at module scope and never for an
\* occurrence inside a class or function body.
C3_ImportsAtModuleScopeOnly ==
    /\ [][(pc = "walk" /\ AtChild /\ cursor \in ImportStatements) =>
            IF _classNestCount = 0 /\ _functionNestCount = 0
            THEN _typeStubText' = _typeStubText \o indent(_indentAmount, _tab) \o
                                  ImportText(cursor) \o <<_lineEnd>>
            ELSE _typeStubText' = _typeStubText]_vars
    /\ [](FirstWriteDone =>
            LET lines == StubLines IN
            \A i \in ImportStatements :
                Cardinality({k \in 1..Len(lines) : lines[k] = ImportText(i)}) =
                Cardinality({j \in ImportStatements :
                                /\ ImportText(j) = ImportText(i)
                                /\ parseTree[j].parent = 0}))

\* A finished stub of a module that imports at module scope and, the same
\* statement, inside a rendered class.
C3_Witness ==
    LET lines == StubLines IN
    /\ FirstWriteDone
    /\ \E i, j \in ImportStatements :
        /\ parseTree[i].parent = 0
        /\ parseTree[j].parent # 0
        /\ ImportText(i) = ImportText(j)
        /\ parseTree[parseTree[j].parent].nodeType = "Class"
        /\ IsRendered(lines, parseTree[j].parent)

IsHeaderLine(line) ==
    LET p == IndentOf(line) + 1
    IN Len(line) >= p /\ line[p] \in {"class ", "def ", "async "}

\* C4: every opened suite gets at least one line: the line after a class or
\* function header is a line of its suite (one indentation unit deeper, not blank),
\* and a header is the last line of the text only while its suite is still open.
C4_SuiteNeverEmpty ==
    LET lines == StubLines IN
    \A k \in 1..Len(lines) :
        IsHeaderLine(lines[k]) =>
            IF k = Len(lines)
            THEN pc = "walk" /\ stack # <<>> /\ IsHeaderOf(lines[k], Enclosing)
            ELSE /\ IndentOf(lines[k + 1]) = IndentOf(lines[k]) + 1
                 /\ Content(lines[k + 1]) # <<>>

\* A finished stub with a suite that holds a declaration and a suite that holds
\* only the placeholder.
C4_Witness ==
    LET lines == StubLines IN
    /\ FirstWriteDone
    /\ \E i, j \in Declarations :
        /\ parseTree[j].parent = i
        /\ IsRendered(lines, i) /\ IsRendered(lines, j)
        /\ \E k \in HeaderLines(lines, j) : Content(lines[k + 1]) = <<"...">>

\* Every member of i is filtered out: a hidden declaration, an import or another
\* statement.
AllMembersFiltered(i) ==
    \A c \in ChildrenOf(i) : c \in Declarations => IsHidden(c)

\* C5: in a finished stub the body of a rendered class whose members are all
\* filtered out is exactly one line, "..." at one indentation unit more than the
\* class header; and a suite in which a declaration was emitted directly has no
\* placeholder line of its own.
C5_PlaceholderIffNothingEmitted ==
    LET lines == StubLines IN
    FirstWriteDone =>
        \A i \in Declarations : \A k \in HeaderLines(lines, i) :
            /\ (parseTree[i].nodeType = "Class" /\ AllMembersFiltered(i)) =>
                    /\ SuiteLines(lines, k) = {k + 1}
                    /\ lines[k + 1] =
                            SubSeq(lines[k], 1, IndentOf(lines[k])) \o
                            <<_tab, "...">>
            /\ (\E c \in ChildrenOf(i) : c \in Declarations /\ IsRendered(lines, c)) =>
                    \A m \in SuiteLines(lines, k) :
                        IndentOf(lines[m]) = IndentOf(lines[k]) + 1 =>
                            Content(lines[m]) # <<"...">>

\* A finished stub with a nested class that has only hidden members, inside a
\* class whose suite therefore holds a declaration.
C5_Witness ==
    LET lines == StubLines IN
    /\ FirstWriteDone
    /\ \E i \in Declarations :
        /\ parseTree[i].nodeType = "Class"
        /\ parseTree[i].parent # 0
        /\ IsRendered(lines, i)
        /\ ChildrenOf(i) # {}
        /\ AllMembersFiltered(i)

\* The rendering of a parameter: the sigil, the name, the annotation, the
\* placeholder of the default value.
ExpectedParameter(p) ==
    (CASE p.category = "VarArgList" -> <<"*">>
       [] p.category = "VarArgDictionary" -> <<"**">>
       [] OTHER -> <<>>) \o
    (IF p.name = None THEN <<>> ELSE p.name[1]) \o
    (CASE p.typeAnnotation # None /\ p.defaultValue # None ->
            <<": ">> \o printExpression(p.typeAnnotation[1]) \o <<" = ...">>
       [] p.typeAnnotation # None /\ p.defaultValue = None ->
            <<": ">> \o printExpression(p.typeAnnotation[1])
       [] p.typeAnnotation = None /\ p.defaultValue # None -> <<"=...">>
       [] OTHER -> <<>>)

TokensOf(text) == {text[t] : t \in 1..Len(text)}

\* C6: in the "def" line of every rendered function each parameter is rendered as
\* sigil, name, ": <annotation>" if annotated and, if it has a default value,
\* " = ..." after an annotation and "=..." without one; the text of a default
\* value is nowhere in the stub text.
C6_ParametersRedacted ==
    LET lines == StubLines IN
    \A i \in Declarations :
        parseTree[i].nodeType = "Function" =>
            LET ps == parseTree[i].parameters
                expected == join([n \in 1..Len(ps) |-> ExpectedParameter(ps[n])], ", ")
            IN /\ \A k \in HeaderLines(lines, i) :
                    \E def \in {<<"def ">>, <<"async ", "def ">>} :
                        IsPrefix(def \o parseTree[i].name \o <<"(">> \o expected \o <<")">>,
                                 Content(lines[k]))
               /\ \A n \in 1..Len(ps) :
                    ps[n].defaultValue # None =>
                        LET default == TokensOf(printExpression(ps[n].defaultValue[1]))
                        IN \A t \in 1..Len(_typeStubText) : _typeStubText[t] \notin default

\* A finished stub of a function with a parameter that has an annotation and a
\* default value and one that has a default value only.
C6_Witness ==
    LET lines == StubLines IN
    /\ FirstWriteDone
    /\ \E i \in Declarations :
        /\ parseTree[i].nodeType = "Function"
        /\ IsRendered(lines, i)
        /\ \E m, n \in 1..Len(parseTree[i].parameters) :
            /\ parseTree[i].parameters[m].defaultValue # None
            /\ parseTree[i].parameters[m].typeAnnotation # None
            /\ parseTree[i].parameters[n].defaultValue # None
            /\ parseTree[i].parameters[n].typeAnnotation = None

\* The module is one public class c with a public method m and a hidden method,
\* and one hidden function at module level.
IsRoundTripModule(c, m) ==
    /\ NodeCount = 4
    /\ Declarations = Nodes
    /\ parseTree[c].nodeType = "Class" /\ parseTree[c].parent = 0 /\ ~IsHidden(c)
    /\ parseTree[m].nodeType = "Function" /\ parseTree[m].parent = c /\ ~IsHidden(m)
    /\ \E h, f \in Nodes \ {c, m} :
        /\ h # f
        /\ parseTree[h].nodeType = "Function" /\ parseTree[h].parent = c /\ IsHidden(h)
        /\ parseTree[f].nodeType = "Function" /\ parseTree[f].parent = 0 /\ IsHidden(f)
    /\ parseTree[c].arguments = <<>> /\ parseTree[c].decorators = <<>>
    /\ parseTree[m].parameters = <<>> /\ parseTree[m].decorators = <<>>
    /\ ~parseTree[m].isAsync /\ parseTree[m].returnTypeAnnotation = None

\* C7: for a module of one public class with a public and a private method and one
\* private module-level function, the finished stub is, after the four header
\* lines, exactly: the class header, the method's signature line, its body, one
\* blank line after the method block and two blank lines after the class block.
C7_RoundTripShape ==
    LET lines == StubLines IN
    \A c, m \in Nodes :
        (FirstWriteDone /\ IsRoundTripModule(c, m)) =>
            /\ Len(lines) = 10
            /\ lines[5] = <<"class ">> \o parseTree[c].name \o <<":">>
            /\ lines[6] = <<_tab, "def ">> \o parseTree[m].name \o <<"(", ")", ":">>
            /\ lines[7] = <<_tab, _tab, "...">>
            /\ Content(lines[8]) = <<>> /\ IndentOf(lines[8]) = 1
            /\ Content(lines[9]) = <<>> /\ IndentOf(lines[9]) = 0
            /\ Content(lines[10]) = <<>> /\ IndentOf(lines[10]) = 0

\* A finished stub of such a module in which the hidden function comes first.
C7_Witness ==
    /\ FirstWriteDone
    /\ \E c, m \in Nodes : IsRoundTripModule(c, m) /\ c > 1

C9_ClassArgumentsLikeDecoratorArguments ==
    LET lines == StubLines IN
    \A i \in Declarations :
        parseTree[i].nodeType = "Class" =>
            LET args == parseTree[i].arguments IN
            \A k \in HeaderLines(lines, i) :
                Content(lines[k]) =
                    <<"class ">> \o parseTree[i].name \o
                    (IF args = <<>> THEN <<>>
                     ELSE <<"(">> \o
                          join([n \in 1..Len(args) |-> printArgument(args[n])], ", ") \o
                          <<")">>) \o
                    <<":">>

\* Every node above i is a class.
OnlyClassesAbove(i) ==
    \A a \in Ancestors(parseTree, i) : parseTree[a].nodeType = "Class"

\* C10 as claimed: class bodies are always walked, so a declaration under classes
\* only is rendered by its own name alone, whether or not those classes are.
C10_ChildrenFilteredAlone ==
    LET lines == StubLines IN
    FirstWriteDone =>
        \A i \in Declarations :
            OnlyClassesAbove(i) => (IsRendered(lines, i) <=> ~IsHidden(i))

\* C10 as amended: the body of a class is walked only if the class is rendered; a
\* declaration under classes only is rendered exactly if neither its own name nor
\* the name of any class above it is private or protected.
C10_ChildrenOfRenderedClassesFiltered ==
    LET lines == StubLines IN
    FirstWriteDone =>
        \A i \in Declarations :
            OnlyClassesAbove(i) =>
                (IsRendered(lines, i) <=>
                    /\ ~IsHidden(i)
                    /\ \A a \in Ancestors(parseTree, i) : ~IsHidden(a))

\* A finished stub of a module in which a hidden class holds a public declaration,
\* which is not rendered.
C10_Witness ==
    LET lines == StubLines IN
    /\ FirstWriteDone
    /\ \E i \in Declarations :
        /\ ~IsHidden(i)
        /\ parseTree[i].parent # 0
        /\ OnlyClassesAbove(i)
        /\ IsHidden(parseTree[i].parent)
        /\ ~IsRendered(lines, i)

----------------------------------------------------------------------------
HasPlaceholder(lines, k) ==
    \E m \in SuiteLines(lines, k) :
        /\ IndentOf(lines[m]) = IndentOf(lines[k]) + 1
        /\ Content(lines[m]) = <<"...">>

\* C12: when a suite is closed _emittedSuite gets back the value it had when the
\* suite was opened (the one _emitSuite saved), whatever the suite emitted; so in
\* a finished stub a suite has a placeholder exactly if no declaration directly in
\* it is rendered, whatever the suites nested in it hold.
C12_SuiteFlagRestored ==
    /\ [][Len(stack') < Len(stack) =>
            _emittedSuite' = stack[Len(stack)].prevEmittedSuite]_vars
    /\ [][Len(stack') > Len(stack) =>
            /\ stack'[Len(stack')].prevEmittedSuite
            /\ ~_emittedSuite']_vars
    /\ [](FirstWriteDone =>
            LET lines == StubLines IN
            \A i \in Declarations : \A k \in HeaderLines(lines, i) :
                HasPlaceholder(lines, k) <=>
                    ~\E c \in ChildrenOf(i) : c \in Declarations /\ IsRendered(lines, c))

\* A finished stub in which a suite holds a declaration whose own suite holds only
\* the placeholder, inside a third suite.
C12_Witness ==
    LET lines == StubLines IN
    /\ FirstWriteDone
    /\ \E i, j \in Declarations :
        /\ parseTree[j].parent = i
        /\ parseTree[i].parent # 0
        /\ IsRendered(lines, i) /\ IsRendered(lines, j)
        /\ \E k \in HeaderLines(lines, j) : HasPlaceholder(lines, k)
        /\ \E k \in HeaderLines(lines, i) : ~HasPlaceholder(lines, k)

\* The filtering rules reject the node the walker is at.
IsRejected(i) ==
    CASE parseTree[i].nodeType = "Class" -> IsHidden(i)
      [] parseTree[i].nodeType = "Function" -> IsHidden(i) \/ _functionNestCount > 0
      [] parseTree[i].nodeType \in {"Import", "ImportFrom"} ->
            _classNestCount > 0 \/ _functionNestCount > 0
      [] OTHER -> FALSE

\* Declaration i passes the filtering rules where it stands, and so does every
\* declaration above it.
IsKept(i) ==
    /\ i \in Declarations
    /\ \A a \in AncestorsOrSelf(parseTree, i) : ~IsHidden(a) /\ ~IsInnerFunction(a)

\* The lines node i contributes to the stub, if rejected nodes contribute none: a
\* kept declaration its decorators, its header, the placeholder if it keeps no
\* member, and its blank lines; an import at module scope its line.
LinesOf(i) ==
    IF IsKept(i)
    THEN Len(parseTree[i].decorators) + 1 +
         (IF \E c \in ChildrenOf(i) : IsKept(c) THEN 0 ELSE 1) +
         (IF parseTree[i].nodeType = "Class" THEN 2 ELSE 1)
    ELSE IF i \in ImportStatements /\ parseTree[i].parent = 0 THEN 1
    ELSE 0

RECURSIVE LinesUpTo(_)
LinesUpTo(n) == IF n = 0 THEN 0 ELSE LinesUpTo(n - 1) + LinesOf(n)

\* C13: the visit of a class, function or import that the filtering rules reject
\* changes neither the text nor _indentAmount, _classNestCount,
\* _functionNestCount, _emittedSuite; the finished stub has the four header lines
\* and the lines of the kept nodes, none for a rejected one.
C13_RejectedVisitChangesNothing ==
    /\ [][(pc = "walk" /\ AtChild /\ IsRejected(cursor)) =>
            /\ UNCHANGED <<_typeStubText, _indentAmount, _classNestCount,
                           _functionNestCount, _emittedSuite, stack>>
            /\ cursor' > cursor]_vars
    /\ [](FirstWriteDone => Len(StubLines) = 4 + LinesUpTo(NodeCount))

\* A finished stub of a suite in which a rejected declaration is followed by a
\* rendered one.
C13_Witness ==
    LET lines == StubLines IN
    /\ FirstWriteDone
    /\ \E i, j \in Declarations :
        /\ i < j
        /\ parseTree[i].parent = parseTree[j].parent
        /\ parseTree[i].parent # 0
        /\ IsHidden(i)
        /\ IsRendered(lines, j)

\* The nodes that have a line of their own in a finished stub, and that line.
RenderedNodes(lines) ==
    {i \in Declarations : IsRendered(lines, i)} \cup
    {i \in ImportStatements : parseTree[i].parent = 0}

LineOf(lines, i) ==
    IF i \in Declarations THEN CHOOSE k \in HeaderLines(lines, i) : TRUE
    ELSE CHOOSE k \in 1..Len(lines) : lines[k] = ImportText(i)

\* C14: the lines of a finished stub are in the pre-order of the tree: of two
\* rendered nodes the one that comes first in the source has its line first; a
\* declaration's header comes before the lines of its suite, which hold the header
\* of every rendered node below it; and its suite ends before the line of any
\* later node that is not below it.
C14_LinesInPreOrder ==
    LET lines == StubLines IN
    FirstWriteDone =>
        \A i, j \in RenderedNodes(lines) :
            i < j =>
                LET li == LineOf(lines, i)
                    lj == LineOf(lines, j)
                IN /\ li < lj
                   /\ i \in Declarations =>
                        /\ \A m \in SuiteLines(lines, li) : li < m
                        /\ IF i \in Ancestors(parseTree, j)
                           THEN lj \in SuiteLines(lines, li)
                           ELSE \A m \in SuiteLines(lines, li) : m < lj

\* A finished stub of a rendered declaration that holds a rendered declaration
\* and is followed by a rendered declaration.
C14_Witness ==
    LET lines == StubLines IN
    /\ FirstWriteDone
    /\ \E i, j, k \in Declarations :
        /\ i < j /\ j < k
        /\ parseTree[j].parent = i
        /\ parseTree[k].parent = parseTree[i].parent
        /\ IsRendered(lines, i) /\ IsRendered(lines, j) /\ IsRendered(lines, k)

\* C15: the file at _typingsPath changes only in the step that ends a completed
\* walk, once per write(), and gets the whole text; when the renderer throws, the
\* exception leaves write(), the writer never goes on, and the file keeps what it
\* held before.
C15_WrittenOnceAfterTraversal ==
    /\ [][typingsFile' # typingsFile =>
            /\ pc = "walk" /\ stack = <<>> /\ cursor > NodeCount
            /\ pc' = "idle"
            /\ typingsFile' = Some([text |-> _typeStubText, writes |-> writes])]_vars
    /\ [][pc = "failed" => pc' = "failed" /\ typingsFile' = typingsFile]_vars
    /\ [](pc = "failed" => typingsFile \in EarlierFiles)

\* The renderer has thrown inside the suite of a class, after lines of the class
\* were emitted, and the file still holds the earlier stub.
C15_Witness ==
    /\ pc = "failed"
    /\ typingsFile # None
    /\ _indentAmount = 1
    /\ IsRendered(StubLines, 1)

\* C16: every write() starts from fresh state (empty text, _indentAmount,
\* _classNestCount and _functionNestCount 0, _emittedSuite false): before the walk
\* of a write() reaches its first statement the text is the four header lines and
\* nothing else, and whenever a write() has returned, a second one on the same
\* writer included, the file holds the stub of the module once.
C16_FreshStatePerWrite ==
    /\ (pc = "walk" /\ cursor = 1 /\ stack = <<>>) =>
            /\ _typeStubText = emitHeaderDocString(<<>>, 0, _tab, _lineEnd)
            /\ _indentAmount = 0
            /\ _classNestCount = 0
            /\ _functionNestCount = 0
            /\ ~_emittedSuite
    /\ (pc = "idle" /\ writes >= 1) =>
            Len(SplitLines(typingsFile[1].text)) = 4 + LinesUpTo(NodeCount)

IsDecoratorLine(line) ==
    LET p == IndentOf(line) + 1
    IN Len(line) >= p /\ line[p] = "@"

RECURSIVE DecoratorsUpTo(_)
\* The number of decorators of the kept declarations among the first n nodes.
DecoratorsUpTo(n) ==
    IF n = 0 THEN 0
    ELSE DecoratorsUpTo(n - 1) + (IF IsKept(n) THEN Len(parseTree[n].decorators) ELSE 0)

\* C17: the lines right before the header of a rendered class or function are its
\* decorators, one per line, in source order, at the header's indentation, whatever
\* name a decorator refers to, and the line before them is no decorator; a finished
\* stub has no decorator line besides these, so none of a rejected declaration.
C17_DecoratorsBeforeHeader ==
    LET lines == StubLines IN
    /\ \A i \in Declarations : \A k \in HeaderLines(lines, i) :
            LET ds == parseTree[i].decorators
                first == k - Len(ds)
            IN /\ first > 1
               /\ \A n \in 1..Len(ds) :
                    lines[first + n - 1] =
                        SubSeq(lines[k], 1, IndentOf(lines[k])) \o decoratorLine(ds[n])
               /\ ~IsDecoratorLine(lines[first - 1])
    /\ FirstWriteDone =>
            Cardinality({k \in 1..Len(lines) : IsDecoratorLine(lines[k])}) =
            DecoratorsUpTo(NodeCount)

\* A finished stub of a class holding a rendered declaration with two different
\* decorators, one of them with a private target.
C17_Witness ==
    LET lines == StubLines IN
    /\ FirstWriteDone
    /\ \E i \in Declarations :
        /\ parseTree[i].parent # 0
        /\ IsRendered(lines, i)
        /\ Len(parseTree[i].decorators) = 2
        /\ parseTree[i].decorators[1] # parseTree[i].decorators[2]
        /\ parseTree[i].decorators[2].leftExpression = Name("__private")

\* C18: _functionNestCount is 0 or 1 and _classNestCount is not negative in every
\* state; at every visit, so whenever a decorator, a header or an import line is
\* emitted, _indentAmount is their sum; both are 0 when the walk is over.
C18_NestCounters ==
    /\ _functionNestCount \in {0, 1}
    /\ _classNestCount >= 0
    /\ _indentAmount = _classNestCount + _functionNestCount
    /\ (WalkDone \/ pc = "idle") => (_classNestCount = 0 /\ _functionNestCount = 0)

\* The walk is in the suite of a class inside a function, past a public function
\* it did not enter.
C18_Witness ==
    /\ pc = "walk"
    /\ _functionNestCount = 1
    /\ _classNestCount = 1
    /\ \E i \in Declarations :
        /\ parseTree[i].nodeType = "Function"
        /\ ~IsHidden(i)
        /\ parseTree[i].parent = Enclosing
        /\ parseTree[Enclosing].nodeType = "Class"
        /\ i < cursor

\* A class with a function among its ancestors.
IsLocalClass(c) ==
    /\ parseTree[c].nodeType = "Class"
    /\ \E a \in Ancestors(parseTree, c) : parseTree[a].nodeType = "Function"

PublicClassesIn(c) ==
    {d \in ChildrenOf(c) : parseTree[d].nodeType = "Class" /\ ~IsHidden(d)}

\* C19: in a finished stub a public class in the body of a rendered function is
\* rendered, one indentation unit deeper than the function, whose suite has no
\* placeholder; no function in the body of such a class is rendered, whatever its
\* name; the lines of the class's suite at its own depth are headers of its public
\* classes, blank lines, or the placeholder, which is the whole suite if the class
\* holds no public class.
C19_ClassInFunction ==
    LET lines == StubLines IN
    FirstWriteDone =>
        \A c \in Declarations :
            (IsLocalClass(c) /\ IsKept(c)) =>
                /\ IsRendered(lines, c)
                /\ \A k \in HeaderLines(lines, c) :
                    /\ \A m \in SuiteLines(lines, k) :
                            IndentOf(lines[m]) = IndentOf(lines[k]) + 1 =>
                                \/ Content(lines[m]) \in {<<>>, <<"...">>}
                                \/ \E d \in PublicClassesIn(c) : IsHeaderOf(lines[m], d)
                    /\ PublicClassesIn(c) = {} =>
                            /\ SuiteLines(lines, k) = {k + 1}
                            /\ Content(lines[k + 1]) = <<"...">>
                    /\ parseTree[parseTree[c].parent].nodeType = "Function" =>
                            \A f \in HeaderLines(lines, parseTree[c].parent) :
                                /\ f < k
                                /\ IndentOf(lines[k]) = IndentOf(lines[f]) + 1
                                /\ ~HasPlaceholder(lines, f)
                /\ \A m \in ChildrenOf(c) :
                        parseTree[m].nodeType = "Function" => ~IsRendered(lines, m)

\* A finished stub of a function holding a public class that holds a public
\* method and a public class.
C19_Witness ==
    LET lines == StubLines IN
    /\ FirstWriteDone
    /\ \E c \in Declarations :
        /\ IsLocalClass(c)
        /\ IsRendered(lines, c)
        /\ parseTree[parseTree[c].parent].nodeType = "Function"
        /\ PublicClassesIn(c) # {}
        /\ \E m \in ChildrenOf(c) : parseTree[m].nodeType = "Function" /\ ~IsHidden(m)

\* C20: in a finished stub the suite of a rendered declaration whose header is at
\* depth d is followed by exactly one (function) or two (class) blank lines, each
\* of them d indentation units and nothing else, so empty only if d = 0; if the
\* declaration has a rendered member, the last line of its suite is the blank line
\* of the last one, d + 1 indentation units.
C20_BlankLinesIndented ==
    LET lines == StubLines IN
    FirstWriteDone =>
        \A i \in Declarations : \A k \in HeaderLines(lines, i) :
            LET d == IndentOf(lines[k])
                e == k + Cardinality(SuiteLines(lines, k))
                n == IF parseTree[i].nodeType = "Class" THEN 2 ELSE 1
            IN /\ e + n <= Len(lines)
               /\ \A t \in 1..n : lines[e + t] = [x \in 1..d |-> _tab]
               /\ e + n < Len(lines) => lines[e + n + 1] # [x \in 1..d |-> _tab]
               /\ (\E c \in ChildrenOf(i) : c \in Declarations /\ IsRendered(lines, c)) =>
                        lines[e] = [x \in 1..(d + 1) |-> _tab]

\* A finished stub, indented with tabs, of a class in a class with a rendered
\* method as its last member.
C20_Witness ==
    LET lines == StubLines IN
    /\ FirstWriteDone
    /\ predominantTabSequence = "\t"
    /\ \E i, j \in Declarations :
        /\ parseTree[j].parent = i
        /\ parseTree[i].parent # 0
        /\ parseTree[i].nodeType = "Class"
        /\ parseTree[j].nodeType = "Function"
        /\ IsRendered(lines, i) /\ IsRendered(lines, j)

====
